---- MODULE Spec2Model ----
(***************************************************************************)
(* A model of cache_manager: the application registry (AppInfoCache), the  *)
(* manual backup manager (CacheBackupManager) and the settings loader      *)
(* (Config).  The three components share no state; each has its own        *)
(* specification over its own variables.                                   *)
(***************************************************************************)
EXTENDS Integers, Sequences, FiniteSets, TLC

(***************************************************************************)
(* Bounds of the model.                                                    *)
(***************************************************************************)
\* add_application is offered only while the list is shorter than this.
MaxApps == 2
\* Number of process starts (constructions of AppInfoCache) explored.
MaxRuns == 3
\* Number of add/remove/update calls explored over a whole behaviour.
MaxOps == 2
\* Largest max_backups_per_app a CacheBackupManager is constructed with.
MaxRetain == 2
\* Readings of datetime.now() are ticks 1..MaxClock; TicksPerSecond of them
\* fall into one second of the backup file name.
MaxClock == 3
TicksPerSecond == 2
\* Largest number of records in a metadata file found on disk.
MaxRecords == 2
\* Largest number of rows of the window's table.
MaxRows == 2
\* Largest number of .json files listed in the configs directory.
MaxListing == 3
\* Number of create_backup calls the window's handlers make over a behaviour.
MaxWindowBackups == 1

\* The longest of the short texts given to from_string.
MaxText == 3

\* The most whole TB of a cache file, apart from one of 1024 TB.
MaxTB == 2

(***************************************************************************)
(* Generic helpers.                                                        *)
(***************************************************************************)
Range(s) == {s[i] : i \in DOMAIN s}

Max(a, b) == IF a >= b THEN a ELSE b

Min(a, b) == IF a <= b THEN a ELSE b

\* A file is <<>> when it does not exist and <<content>> when it does.
Absent == <<>>

File(content) == <<content>>

Exists(f) == f # Absent

Content(f) == f[1]

(***************************************************************************)
(* REGISTRY: src/utils/app_info_cache.py                                   *)
(***************************************************************************)
NUM_BACKUPS == 4

\* AppInfo.SERVICE_NAME / AppInfo.APP_IDENTIFIER (utils.globals).
SERVICE_NAME == "cache_manager_service"

APP_IDENTIFIER == "cache_manager_app"

CACHE_LOC == "app_info_cache.enc"

\* EncryptionStrategy.UNKNOWN.value
UNKNOWN == "unknown"

\* Python's None, as an argument value.
None == "<None>"

\* `x or default` taking only None as falsy.
PyOr_OnlyNone(x, default) == IF x = None THEN default ELSE x

\* `x or default`: None and the empty string are falsy.
PyOr(x, default) == IF x = None \/ x = "" THEN default ELSE x

\* Whether the optional post-quantum capability was imported (KeyEncapsulation
\* is not None).  Fixed for the installation.
KeyEncapsulationAvailable == TRUE

\* The app dict built by add_application and update_application.
MakeApp(name, service_name, app_identifier, cache_location, encryption_strategy) ==
    [name |-> name,
     service_name |-> service_name,
     app_identifier |-> app_identifier,
     cache_location |-> cache_location,
     encryption_strategy |-> PyOr(encryption_strategy, UNKNOWN)]

\* The entry _add_self_to_cache appends.
SelfEntry ==
    [name |-> "Cache Manager",
     service_name |-> SERVICE_NAME,
     app_identifier |-> APP_IDENTIFIER,
     cache_location |-> CACHE_LOC,
     encryption_strategy |-> IF KeyEncapsulationAvailable THEN "oqs" ELSE "standard"]

\* The argument tuples the callers of add/update are given in this model:
\* an absent strategy, an explicit one, and an entry that carries this
\* application's own (service_name, app_identifier) pair with an empty strategy.
AppArgs ==
    { <<"App A", "svc", "id", "/a.enc", None>>,
      <<"App B", "svc", "id", "/b.enc", "standard">>,
      <<"Twin", SERVICE_NAME, APP_IDENTIFIER, "/c.enc", "">> }

AppOf(a) == MakeApp(a[1], a[2], a[3], a[4], a[5])

UserEntries == {AppOf(a) : a \in AppArgs}

\* The test of _add_self_to_cache's loop, for one entry.
IsSelf(app) ==
    app.service_name = SERVICE_NAME /\ app.app_identifier = APP_IDENTIFIER

SelfCount(apps) == Cardinality({i \in DOMAIN apps : IsSelf(apps[i])})

\* The index guard of remove_application and update_application.
InRange_NoLowerBound(index, n) == index < n

InRange(index, n) == 0 <= index /\ index < n

\* Python list indexing: a negative index counts from the end.  1-based result.
PyPos(index, n) == IF index < 0 THEN index + n + 1 ELSE index + 1

\* del apps[index]
DelAt(apps, index) ==
    LET p == PyPos(index, Len(apps)) IN
    [j \in 1..(Len(apps) - 1) |-> IF j < p THEN apps[j] ELSE apps[j + 1]]

\* apps[index] = app
SetAt(apps, index, app) ==
    LET p == PyPos(index, Len(apps)) IN
    IF p \in DOMAIN apps THEN [apps EXCEPT ![p] = app] ELSE apps

\* apps[index], as a set: empty when there is no such position.
At(apps, index) ==
    LET p == PyPos(index, Len(apps)) IN
    IF p \in DOMAIN apps THEN {apps[p]} ELSE {}

\* Outcomes of one call of store(): the encrypted write succeeded; it failed
\* and the plaintext fallback succeeded; both failed.
PersistOutcomes == {"encrypted", "plaintext", "raise"}

\* encrypt_data_to_file(data, service, identifier, path): writes the file, or
\* fails and leaves it as it was.
EncryptDataToFile(doc, file, ok) == IF ok THEN File(doc) ELSE file

\* A store() without the plaintext fallback: it raises as soon as the
\* encrypted write fails.
Store_NoFallback(doc, e, j, outcome) ==
    IF outcome = "encrypted"
    THEN [enc |-> EncryptDataToFile(doc, e, TRUE), json |-> j, ret |-> "true"]
    ELSE [enc |-> EncryptDataToFile(doc, e, FALSE), json |-> j, ret |-> "raise"]

\* store(): the files afterwards and what the call reports
\* ("true", "false", or "raise").
Store(doc, e, j, outcome) ==
    IF outcome = "encrypted"
    THEN [enc |-> EncryptDataToFile(doc, e, TRUE), json |-> j, ret |-> "true"]
    ELSE IF outcome = "plaintext"
    THEN [enc |-> EncryptDataToFile(doc, e, FALSE), json |-> File(doc), ret |-> "false"]
    ELSE [enc |-> EncryptDataToFile(doc, e, FALSE), json |-> j, ret |-> "raise"]

\* _get_backup_paths(): generation k is CACHE_LOC.bak (k = 1) or CACHE_LOC.bak<k>.
GetBackupPaths == 1..NUM_BACKUPS

\* The shifting loop of _rotate_backups, from generation i down to 1.  Step
\* failAt of the rotation raises (os.remove and shutil.copy2 can fail); a
\* failing step changes nothing.
RECURSIVE ShiftBackups(_, _, _)
ShiftBackups(b, i, failAt) ==
    IF i = 0 THEN [bak |-> b, raised |-> FALSE]
    ELSE IF Exists(b[i])
         THEN IF failAt = NUM_BACKUPS - i + 1
              THEN [bak |-> b, raised |-> TRUE]
              ELSE ShiftBackups([b EXCEPT ![i + 1] = b[i]], i - 1, failAt)
         ELSE ShiftBackups(b, i - 1, failAt)

\* A _rotate_backups() that stores the copy of the primary behind the
\* generations that exist instead of in front of them.
RotateBackups_Behind(b, e, failAt) ==
    IF Exists(b[NUM_BACKUPS]) /\ failAt = 1
    THEN [bak |-> b, raised |-> TRUE]
    ELSE LET b1 == [b EXCEPT ![NUM_BACKUPS] = Absent]
             s == ShiftBackups(b1, NUM_BACKUPS - 1, failAt)
             free == {k \in GetBackupPaths : ~Exists(s.bak[k])}
             to == IF free = {} THEN 1 ELSE CHOOSE k \in free : \A j \in free : k <= j
         IN IF s.raised THEN s
            ELSE IF failAt = NUM_BACKUPS + 1
                 THEN [bak |-> s.bak, raised |-> TRUE]
                 ELSE [bak |-> [s.bak EXCEPT ![to] = e], raised |-> FALSE]

\* _rotate_backups(): step 1 removes the oldest generation, steps 2..NUM_BACKUPS
\* copy generation i to i + 1, the last step copies the primary to generation 1.
RotateBackups(b, e, failAt) ==
    IF Exists(b[NUM_BACKUPS]) /\ failAt = 1
    THEN [bak |-> b, raised |-> TRUE]
    ELSE LET b1 == [b EXCEPT ![NUM_BACKUPS] = Absent]
             s == ShiftBackups(b1, NUM_BACKUPS - 1, failAt)
         IN IF s.raised THEN s
            ELSE IF failAt = NUM_BACKUPS + 1
                 THEN [bak |-> s.bak, raised |-> TRUE]
                 ELSE [bak |-> [s.bak EXCEPT ![1] = e], raised |-> FALSE]

\* The candidate loop of load(): candidate 0 is the primary file, candidate k
\* is backup generation k.  decOk is the set of candidates that
\* _try_load_cache_from_file can decrypt and parse.  A candidate that raises
\* (also the primary, when its rotation raises) is logged and the loop goes on;
\* when the loop ends the raise lands in the outer handler, which empties the
\* document.
RECURSIVE TryCandidates(_, _, _, _, _, _)
TryCandidates(i, e, b, decOk, failAt, fault) ==
    IF i > NUM_BACKUPS
    THEN [cache |-> <<>>, bak |-> b, source |-> "none", fault |-> TRUE]
    ELSE LET f == IF i = 0 THEN e ELSE b[i] IN
         IF ~Exists(f) THEN TryCandidates(i + 1, e, b, decOk, failAt, fault)
         ELSE IF i \notin decOk THEN TryCandidates(i + 1, e, b, decOk, failAt, TRUE)
         ELSE IF i = 0
              THEN LET r == RotateBackups(b, e, failAt) IN
                   IF r.raised
                   THEN TryCandidates(i + 1, e, r.bak, decOk, failAt, TRUE)
                   ELSE [cache |-> Content(f), bak |-> r.bak,
                         source |-> "primary", fault |-> fault]
              ELSE [cache |-> Content(f), bak |-> b,
                    source |-> "backup", fault |-> fault]

\* load(), started with the empty document of __init__.
Load(e, j, b, mig, decOk, failAt) ==
    IF Exists(j)
    THEN LET doc == Content(j)
             s == Store(doc, e, j, mig)
         IN IF s.ret = "true"
            THEN [cache |-> doc, enc |-> s.enc, json |-> Absent, bak |-> b,
                  source |-> "legacy", ret |-> s.ret, fault |-> FALSE]
            ELSE IF s.ret = "false"
            THEN [cache |-> doc, enc |-> s.enc, json |-> s.json, bak |-> b,
                  source |-> "legacy", ret |-> s.ret, fault |-> FALSE]
            ELSE [cache |-> <<>>, enc |-> s.enc, json |-> s.json, bak |-> b,
                  source |-> "legacy", ret |-> s.ret, fault |-> TRUE]
    ELSE IF ~Exists(e) /\ \A k \in GetBackupPaths : ~Exists(b[k])
    THEN [cache |-> <<>>, enc |-> e, json |-> j, bak |-> b,
          source |-> "firstrun", ret |-> "none", fault |-> FALSE]
    ELSE LET t == TryCandidates(0, e, b, decOk, failAt, FALSE)
         IN [cache |-> t.cache, enc |-> e, json |-> j, bak |-> t.bak,
             source |-> t.source, ret |-> "none", fault |-> t.fault]

\* The scan of _add_self_to_cache.
HasSelf(apps) == \E i \in DOMAIN apps : IsSelf(apps[i])

VARIABLES
    phase,      \* "down": no process; "loaded": __init__ after load(); "up": constructed
    cache,      \* self._cache['applications']
    enc,        \* the file at CACHE_LOC (its content is the document it decrypts to)
    json,       \* the file at JSON_LOC
    bak,        \* the files at CACHE_LOC.bak, .bak2, .bak3, .bak4
    last,       \* the last call: which, its index, whether in range, what store() did
    added,      \* history: per entry, how often it was added and not yet removed or updated
    noFault,    \* history: no store() raised, no decrypt and no rotation step failed
    runs,       \* number of process starts so far
    ops,        \* number of add/remove/update calls so far
    captured    \* history: per backup generation, the run whose load() copied
                \* its content from the primary file, and that content

regVars == <<phase, cache, enc, json, bak, last, added, noFault, runs, ops, captured>>


\* first is the first existing candidate of load()'s loop that decrypts and
\* parses (NUM_BACKUPS + 1 when none does, -1 when the loop was not entered).
\* persist is what the environment did to the writes of the call's store(), a
\* member of PersistOutcomes, or "none" when the call did not reach store().
\* recent is history: the same for the most recent call that reached store().
\* args is the argument tuple of add_application and update_application.
NoCall ==
    [op |-> "none", index |-> 0, inRange |-> TRUE, ret |-> "none", source |-> "none",
     persist |-> "none", first |-> -1, recent |-> "none", args |-> <<>>]

EmptyBak == [k \in GetBackupPaths |-> Absent]

RegInit ==
    /\ phase = "down"
    /\ cache = <<>>
    /\ enc = Absent
    /\ json = Absent
    /\ bak = EmptyBak
    /\ captured = EmptyBak
    /\ last = NoCall
    /\ added = [u \in UserEntries |-> 0]
    /\ noFault = TRUE
    /\ runs = 0
    /\ ops = 0

\* The outcomes load() can meet on this disk: the store of the migration
\* matters only when the legacy file exists, decryption only for candidates
\* that exist, and a rotation step only when the primary decrypts.
Candidates(e, b) ==
    {i \in 0..NUM_BACKUPS : Exists(IF i = 0 THEN e ELSE b[i])}

\* The first candidate, in the order of cache_paths, that exists and that
\* _try_load_cache_from_file can decrypt and parse.
FirstDecryptable(e, b, decOk) ==
    LET good == (Candidates(e, b) \cap decOk) \cup {NUM_BACKUPS + 1}
    IN CHOOSE i \in good : \A k \in good : i <= k

MigrationOutcomes(j) == IF Exists(j) THEN PersistOutcomes ELSE {"encrypted"}

DecryptOutcomes(e, j, b) ==
    IF Exists(j) THEN {{}} ELSE SUBSET Candidates(e, b)

RotationOutcomes(decOk) ==
    IF 0 \in decOk THEN 0..(NUM_BACKUPS + 1) ELSE {0}

\* __init__, first half: self._cache = {'applications': []}; self.load()
LoadStep ==
    /\ phase = "down"
    /\ runs < MaxRuns
    /\ \E mig \in MigrationOutcomes(json), decOk \in DecryptOutcomes(enc, json, bak) :
          \E failAt \in RotationOutcomes(decOk) :
          LET l == Load(enc, json, bak, mig, decOk, failAt) IN
          /\ cache' = l.cache
          /\ enc' = l.enc
          /\ json' = l.json
          /\ bak' = l.bak
          /\ captured' = IF ~Exists(json) /\ Exists(enc) /\ 0 \in decOk
                          THEN RotateBackups(captured,
                                             File([run |-> runs + 1, doc |-> Content(enc)]),
                                             failAt).bak
                          ELSE captured
          /\ last' = [NoCall EXCEPT !.op = "load", !.ret = l.ret, !.source = l.source,
                                   !.persist = IF Exists(json) THEN mig ELSE "none",
                                   !.recent = IF Exists(json) THEN mig ELSE last.recent,
                                   !.first = IF Exists(json) \/ Candidates(enc, bak) = {}
                                             THEN -1
                                             ELSE FirstDecryptable(enc, bak, decOk)]
          /\ noFault' = (noFault /\ ~l.fault)
    /\ phase' = "loaded"
    /\ runs' = runs + 1
    /\ UNCHANGED <<added, ops>>

\* _add_self_to_cache(): the document afterwards.
AddSelfToCache_Always(apps) == Append(apps, SelfEntry)

AddSelfToCache(apps) == IF HasSelf(apps) THEN apps ELSE Append(apps, SelfEntry)

\* __init__, second half: self.validate(); self._add_self_to_cache().  A raise
\* of store() leaves __init__, the import of the module fails and the process
\* ends.
AddSelfStep ==
    /\ phase = "loaded"
    /\ \E outcome \in PersistOutcomes :
          LET apps == AddSelfToCache(cache)
              s == IF apps = cache
                   THEN [enc |-> enc, json |-> json, ret |-> "none"]
                   ELSE Store(apps, enc, json, outcome)
          IN /\ enc' = s.enc
             /\ json' = s.json
             /\ last' = [NoCall EXCEPT !.op = "init", !.ret = s.ret, !.source = last.source,
                                      !.first = last.first,
                                      !.persist = IF apps = cache THEN "none" ELSE outcome,
                                      !.recent = IF apps = cache THEN last.recent ELSE outcome]
             /\ noFault' = (noFault /\ s.ret # "raise")
             /\ IF s.ret = "raise"
                THEN phase' = "down" /\ cache' = <<>>
                ELSE phase' = "up" /\ cache' = apps
    /\ UNCHANGED <<bak, captured, added, runs, ops>>

\* The process ends; the document in memory is gone.
Exit ==
    /\ phase = "up"
    /\ phase' = "down"
    /\ cache' = <<>>
    /\ last' = [NoCall EXCEPT !.op = "exit", !.recent = last.recent]
    /\ UNCHANGED <<enc, json, bak, captured, added, noFault, runs, ops>>

\* add_application(name, service_name, app_identifier, cache_location, encryption_strategy)
AddApplication ==
    /\ phase = "up"
    /\ ops < MaxOps
    /\ Len(cache) < MaxApps
    /\ \E a \in AppArgs, outcome \in PersistOutcomes :
          LET apps == Append(cache, AppOf(a))
              s == Store(apps, enc, json, outcome)
          IN /\ cache' = apps
             /\ enc' = s.enc
             /\ json' = s.json
             /\ last' = [NoCall EXCEPT !.op = "add", !.ret = s.ret, !.persist = outcome,
                                      !.recent = outcome, !.args = a]
             /\ added' = [added EXCEPT ![AppOf(a)] = @ + 1]
             /\ noFault' = (noFault /\ s.ret # "raise")
    /\ ops' = ops + 1
    /\ UNCHANGED <<phase, bak, captured, runs>>

\* History: the entry at a position stops being one that was added and kept.
Forget(bag, gone) ==
    [u \in DOMAIN bag |-> IF u \in gone /\ bag[u] > 0 THEN bag[u] - 1 ELSE bag[u]]

\* remove_application(index)
RemoveApplication ==
    /\ phase = "up"
    /\ ops < MaxOps
    /\ \E index \in (-1)..(MaxApps + 1), outcome \in PersistOutcomes :
          IF InRange(index, Len(cache))
          THEN LET apps == DelAt(cache, index)
                   s == Store(apps, enc, json, outcome)
               IN /\ cache' = apps
                  /\ enc' = s.enc
                  /\ json' = s.json
                  /\ last' = [NoCall EXCEPT !.op = "remove", !.index = index, !.ret = s.ret,
                                          !.persist = outcome, !.recent = outcome]
                  /\ added' = Forget(added, At(cache, index))
                  /\ noFault' = (noFault /\ s.ret # "raise")
          ELSE /\ last' = [NoCall EXCEPT !.op = "remove", !.index = index, !.inRange = FALSE,
                                          !.recent = last.recent]
               /\ UNCHANGED <<cache, enc, json, added, noFault>>
    /\ ops' = ops + 1
    /\ UNCHANGED <<phase, bak, captured, runs>>

\* update_application(index, name, service_name, app_identifier, cache_location, encryption_strategy)
UpdateApplication ==
    /\ phase = "up"
    /\ ops < MaxOps
    /\ \E index \in (-1)..(MaxApps + 1), a \in AppArgs, outcome \in PersistOutcomes :
          IF InRange(index, Len(cache))
          THEN LET apps == SetAt(cache, index, AppOf(a))
                   s == Store(apps, enc, json, outcome)
               IN /\ cache' = apps
                  /\ enc' = s.enc
                  /\ json' = s.json
                  /\ last' = [NoCall EXCEPT !.op = "update", !.index = index, !.ret = s.ret,
                                          !.persist = outcome, !.recent = outcome,
                                          !.args = a]
                  /\ added' = Forget(added, At(cache, index))
                  /\ noFault' = (noFault /\ s.ret # "raise")
          ELSE /\ last' = [NoCall EXCEPT !.op = "update", !.index = index, !.inRange = FALSE,
                                          !.recent = last.recent, !.args = a]
               /\ UNCHANGED <<cache, enc, json, added, noFault>>
    /\ ops' = ops + 1
    /\ UNCHANGED <<phase, bak, captured, runs>>


(***************************************************************************)
(* BACKUP MANAGER: src/cache_manager/cache_backup_manager.py               *)
(***************************************************************************)
\* str.lower() on the characters used in the application names below.
UpperCase ==
    <<"A", "B", "C", "D", "E", "F", "G", "H", "I", "J", "K", "L", "M",
      "N", "O", "P", "Q", "R", "S", "T", "U", "V", "W", "X", "Y", "Z">>

LowerCase ==
    <<"a", "b", "c", "d", "e", "f", "g", "h", "i", "j", "k", "l", "m",
      "n", "o", "p", "q", "r", "s", "t", "u", "v", "w", "x", "y", "z">>

\* The Kelvin sign U+212A, a character outside ASCII whose lower case is "k".
KelvinSign == "<U+212A>"

Lower(c) ==
    IF \E i \in DOMAIN UpperCase : UpperCase[i] = c
    THEN LowerCase[CHOOSE i \in DOMAIN UpperCase : UpperCase[i] = c]
    ELSE IF c = KelvinSign THEN "k" ELSE c

\* str.upper() of one character.
Upper(c) ==
    IF \E i \in DOMAIN LowerCase : LowerCase[i] = c
    THEN UpperCase[CHOOSE i \in DOMAIN LowerCase : LowerCase[i] = c]
    ELSE c

\* sanitize_filename(name): name.lower().replace(' ', '_').  A name is the
\* sequence of its characters.
SanitizeFilename(name) ==
    [i \in DOMAIN name |-> IF Lower(name[i]) = " " THEN "_" ELSE Lower(name[i])]

\* Display names given to create_backup.
AppNames == { <<"A", " ", "b">>, <<"a", "_", "b">>, <<"C">> }

\* cache_location arguments.
Locations == {"/a.enc", "/c.enc"}

\* strftime("%Y%m%d_%H%M%S") of a reading of the clock: its second.
SecondOf(t) == t \div TicksPerSecond

\* os.path.join(self.backup_dir, f"{safe_name}_{timestamp}.enc")
BackupPath(app_name, t) == [name |-> SanitizeFilename(app_name), sec |-> SecondOf(t)]

\* os.path.join(self.backup_dir, f"{safe_name}_backups.json")
MetadataFile(app_name) == SanitizeFilename(app_name)

\* A directory is a function from the paths that exist to their contents.
WriteFile(dir, path, content) ==
    [p \in DOMAIN dir \cup {path} |-> IF p = path THEN content ELSE dir[p]]

RemoveFile(dir, path) == [p \in DOMAIN dir \ {path} |-> dir[p]]

\* Python slices s[i:] and s[:i]: a negative i counts from the end, and -0 is 0.
PySliceFrom(s, i) ==
    LET start == IF i < 0 THEN Max(Len(s) + i, 0) ELSE Min(i, Len(s))
    IN SubSeq(s, start + 1, Len(s))

PySliceTo(s, i) ==
    LET stop == IF i < 0 THEN Max(Len(s) + i, 0) ELSE Min(i, Len(s))
    IN SubSeq(s, 1, stop)

\* sorted(backups, key=lambda x: x['timestamp']): stable, ascending.
RECURSIVE InsertByTimestamp(_, _)
InsertByTimestamp(sorted, r) ==
    IF sorted = <<>> THEN <<r>>
    ELSE IF sorted[Len(sorted)].timestamp <= r.timestamp THEN Append(sorted, r)
    ELSE Append(InsertByTimestamp(SubSeq(sorted, 1, Len(sorted) - 1), r),
                sorted[Len(sorted)])

RECURSIVE SortedByTimestamp(_)
SortedByTimestamp(backups) ==
    IF backups = <<>> THEN <<>>
    ELSE InsertByTimestamp(SortedByTimestamp(SubSeq(backups, 1, Len(backups) - 1)),
                           backups[Len(backups)])

\* The one step of a create_backup call that fails, if any: the copy, the
\* decrypt verification, reading or writing the metadata file in
\* _save_backup_metadata, reading it in list_backups, removing old backup
\* files, rewriting the metadata file after pruning.
Faults ==
    {"none", "copy", "verify", "metaRead", "metaWrite", "listRead", "remove", "pruneWrite"}

\* list_backups(app_name): [] when the file is missing or cannot be read.
ListBackups(meta, app_name, readOk) ==
    IF MetadataFile(app_name) \notin DOMAIN meta THEN <<>>
    ELSE IF ~readOk THEN <<>>
    ELSE meta[MetadataFile(app_name)]

\* get_last_backup_time(app_name): the set holding the timestamp returned,
\* empty for None.
GetLastBackupTime(meta, app_name, readOk) ==
    LET backups == ListBackups(meta, app_name, readOk) IN
    IF backups = <<>> THEN {} ELSE {backups[Len(backups)].timestamp}

\* _save_backup_metadata(app_name, backup_path): the metadata files
\* afterwards, and whether it raised.
SaveBackupMetadata(meta, app_name, path, t, fault) ==
    LET file == MetadataFile(app_name)
        old == IF file \in DOMAIN meta THEN meta[file] ELSE <<>>
    IN IF file \in DOMAIN meta /\ fault = "metaRead"
       THEN [meta |-> meta, raised |-> TRUE]
       ELSE IF fault = "metaWrite"
       THEN [meta |-> meta, raised |-> TRUE]
       ELSE [meta |-> WriteFile(meta, file, Append(old, [path |-> path, timestamp |-> t])),
             raised |-> FALSE]

\* The removal loop of _cleanup_old_backups: a removal that fails is logged.
RECURSIVE RemoveOldBackups(_, _, _)
RemoveOldBackups(files, toRemove, fault) ==
    IF toRemove = <<>> THEN files
    ELSE LET path == Head(toRemove).path
             next == IF path \in DOMAIN files /\ fault # "remove"
                     THEN RemoveFile(files, path) ELSE files
         IN RemoveOldBackups(next, Tail(toRemove), fault)

\* _cleanup_old_backups(app_name): never raises.
CleanupOldBackups(files, meta, app_name, limit, fault) ==
    LET backups == ListBackups(meta, app_name, fault # "listRead") IN
    IF Len(backups) <= limit THEN [files |-> files, meta |-> meta]
    ELSE LET backups_sorted == SortedByTimestamp(backups)
             backups_to_keep == PySliceFrom(backups_sorted, 0 - limit)
             backups_to_remove == PySliceTo(backups_sorted, 0 - limit)
         IN [files |-> RemoveOldBackups(files, backups_to_remove, fault),
             meta |-> IF fault = "pruneWrite" THEN meta
                      ELSE WriteFile(meta, MetadataFile(app_name), backups_to_keep)]

\* What create_backup does with a copy that does not decrypt: it removes the
\* copy it made.
DiscardFailedBackup_Keep(files, caches, backup_path, cache_location) ==
    [files |-> files, caches |-> caches]

\* The same step removing the file at cache_location instead of the copy.
DiscardFailedBackup_Original(files, caches, backup_path, cache_location) ==
    [files |-> files, caches |-> [caches EXCEPT ![cache_location] = Absent]]

DiscardFailedBackup(files, caches, backup_path, cache_location) ==
    [files |-> RemoveFile(files, backup_path), caches |-> caches]

\* No path: the None that create_backup returns.
NoPath == [name |-> <<>>, sec |-> 0 - 1]

\* create_backup(app_name, cache_location, service_name, app_identifier) at
\* clock reading t: the directories afterwards and the value returned.
CreateBackup(files, meta, caches, limit, app_name, cache_location, t, fault) ==
    LET backup_path == BackupPath(app_name, t)
        same == [files |-> files, meta |-> meta, caches |-> caches, ret |-> NoPath]
    IN IF ~Exists(caches[cache_location]) THEN same
       ELSE IF fault = "copy" THEN same
       ELSE LET copied == WriteFile(files, backup_path, Content(caches[cache_location])) IN
            IF fault = "verify"
            THEN LET d == DiscardFailedBackup(copied, caches, backup_path, cache_location)
                 IN [files |-> d.files, meta |-> meta, caches |-> d.caches, ret |-> NoPath]
            ELSE LET saved == SaveBackupMetadata(meta, app_name, backup_path, t, fault) IN
                 IF saved.raised
                 THEN [files |-> copied, meta |-> saved.meta, caches |-> caches, ret |-> NoPath]
                 ELSE LET c == CleanupOldBackups(copied, saved.meta, app_name, limit, fault)
                      IN [files |-> c.files, meta |-> c.meta, caches |-> caches,
                          ret |-> backup_path]

VARIABLES
    max_backups_per_app,  \* self.max_backups_per_app
    cacheFiles,           \* the tracked cache files, by cache_location
    backupFiles,          \* the backup files in backup_dir, by BackupPath
    metadata,             \* the metadata files in backup_dir, by MetadataFile
    clock,                \* the last reading of datetime.now()
    blast,                \* the last create_backup call: arguments, fault, value returned
    made,                 \* history: the calls that returned a path, in order
    allOk,                \* history: every call so far returned a path and met no fault
    qlast                 \* the last query: its arguments and what it returned

bkVars ==
    <<max_backups_per_app, cacheFiles, backupFiles, metadata, clock, blast, made, allOk, qlast>>

NoDir == [p \in {} |-> <<>>]

NoBackupCall == [fault |-> "none", path |-> NoPath, ret |-> NoPath]

NoQuery == [op |-> "none", app |-> <<>>, readOk |-> TRUE, list |-> <<>>, time |-> {}]

\* CacheBackupManager(max_backups_per_app) on an empty backups directory; one
\* tracked cache file exists and one does not.
BackupInit ==
    /\ max_backups_per_app \in 0..MaxRetain
    /\ cacheFiles = [l \in Locations |-> IF l = "/a.enc" THEN File("ciphertext") ELSE Absent]
    /\ backupFiles = NoDir
    /\ metadata = NoDir
    /\ clock = 0
    /\ blast = NoBackupCall
    /\ made = <<>>
    /\ allOk = TRUE
    /\ qlast = NoQuery

\* The default of max_backups_per_app.
DefaultMaxBackups == 10

\* A backup manager constructed with the default and never called.
BackupIdle ==
    /\ max_backups_per_app = DefaultMaxBackups
    /\ cacheFiles = [l \in Locations |-> Absent]
    /\ backupFiles = NoDir
    /\ metadata = NoDir
    /\ clock = 0
    /\ blast = NoBackupCall
    /\ made = <<>>
    /\ allOk = TRUE
    /\ qlast = NoQuery

\* One call of create_backup.  A call on a cache file that exists reads the
\* clock, which has advanced, and meets at most one fault; a call on a missing
\* cache file returns at once.
CreateBackupCall ==
    \E app_name \in AppNames, cache_location \in Locations :
      \E fault \in (IF Exists(cacheFiles[cache_location]) THEN Faults ELSE {"missing"}),
         t \in (IF Exists(cacheFiles[cache_location])
                THEN (clock + 1)..Min(clock + TicksPerSecond, MaxClock)
                ELSE {clock}) :
        LET r == CreateBackup(backupFiles, metadata, cacheFiles, max_backups_per_app,
                              app_name, cache_location, t, fault)
        IN /\ backupFiles' = r.files
           /\ metadata' = r.meta
           /\ cacheFiles' = r.caches
           /\ clock' = t
           /\ blast' = [fault |-> fault,
                        path |-> IF fault = "missing" THEN NoPath
                                 ELSE BackupPath(app_name, t),
                        ret |-> r.ret]
           /\ made' = IF r.ret = NoPath THEN made
                      ELSE Append(made, [app |-> app_name, path |-> r.ret, timestamp |-> t])
           /\ allOk' = (allOk /\ r.ret # NoPath /\ fault = "none")
           /\ UNCHANGED <<max_backups_per_app, qlast>>

\* The metadata files of the application names above.
MetaFiles == {MetadataFile(n) : n \in AppNames}

\* The record lists a metadata file found on disk can hold: up to MaxRecords
\* records in any order of their timestamps.
RecordsOf(file) ==
    UNION { [1..n -> {[path |-> [name |-> file, sec |-> SecondOf(t)], timestamp |-> t] :
                        t \in 1..MaxClock}] : n \in 0..MaxRecords }

\* A manager over a backups directory left by earlier runs: each metadata
\* file is missing or holds one of RecordsOf.
QueryInit ==
    /\ max_backups_per_app = DefaultMaxBackups
    /\ cacheFiles = [l \in Locations |-> Absent]
    /\ backupFiles = NoDir
    /\ \E present \in SUBSET MetaFiles :
          metadata \in [present -> UNION {RecordsOf(f) : f \in MetaFiles}]
    /\ \A f \in DOMAIN metadata : metadata[f] \in RecordsOf(f)
    /\ clock = MaxClock
    /\ blast = NoBackupCall
    /\ made = <<>>
    /\ allOk = TRUE
    /\ qlast = NoQuery

\* list_backups(app_name) and get_last_backup_time(app_name); the metadata
\* file, when it exists, can be read or not.
QueryBackups ==
    \E app_name \in AppNames, readOk \in BOOLEAN :
        /\ qlast' = [op |-> "query", app |-> app_name, readOk |-> readOk,
                     list |-> ListBackups(metadata, app_name, readOk),
                     time |-> GetLastBackupTime(metadata, app_name, readOk)]
        /\ UNCHANGED <<max_backups_per_app, cacheFiles, backupFiles, metadata, clock,
                       blast, made, allOk>>

(***************************************************************************)
(* SETTINGS: src/utils/config.py                                           *)
(***************************************************************************)
\* The settings declared with set_values(str, ...).
Settings == {"foreground_color", "background_color"}

\* The defaults assigned in __init__ before the file is read.
DefaultAttrs == [foreground_color |-> "white", background_color |-> "#2596BE"]

\* Keys and values given to set_config_value.
ConfigKeys == Settings \cup {"debug", "no_such_attribute"}

ConfigValues == {"white", "black"}

\* The content of a settings or swap file: whether it parses as JSON and, if
\* so, the object it holds.  NoDoc is the empty object.
NoDoc == [k \in {} |-> ""]

Json(doc) == [parses |-> TRUE, doc |-> doc]

Malformed == [parses |-> FALSE, doc |-> NoDoc]

\* __init__: json.load of the chosen file; a failure is logged and self.dict
\* stays {}.
ConfigLoad(file) ==
    IF Exists(file) /\ Content(file).parses THEN Content(file).doc ELSE NoDoc

\* set_values(str, "foreground_color", "background_color"): a key missing from
\* self.dict is logged and the attribute keeps its default.  The values of the
\* model are strings, on which str() changes nothing.
SetValues(dict) ==
    [k \in Settings |-> IF k \in DOMAIN dict THEN dict[k] ELSE DefaultAttrs[k]]

\* The attribute __init__ assigns that no set_values group declares and that
\* the settings file does not hold: self.debug = False.
False == "<False>"

PlainAttrs == [debug |-> False]

\* The attributes of a new instance: the declared settings as set_values
\* leaves them, and the plain ones.
Attributes(dict) ==
    [k \in Settings \cup DOMAIN PlainAttrs |->
       IF k \in Settings THEN SetValues(dict)[k] ELSE PlainAttrs[k]]

\* Config(config_path=path): raises only when os.scandir of the configs
\* directory does; a file that does not parse is logged, not raised.
ConfigConstruct(file, scandirOk) ==
    [raised |-> ~scandirOk, dict |-> ConfigLoad(file), attrs |-> Attributes(ConfigLoad(file))]

\* Utils.copy_file(swap_path, self.config_path, overwrite_existing=True): the
\* target holds the source's content, or the call raises and the target is as
\* it was.
CopyFile(source, target, ok) == IF ok THEN source ELSE target

\* os.remove(swap_path)
RemoveSwap_Leave(swap) == swap

RemoveSwap(swap) == Absent

\* What the write of the swap file leaves: the dump of self.dict; a file that
\* does not parse when read back although the write returned; a raise after
\* the file was created; a raise before it was.
SwapWrites == {"ok", "malformed", "partial", "nofile"}

\* What fails after the write: nothing, the construction of the test
\* instance, or the copy onto the real file.
LaterFaults == {"none", "validate", "commit"}

\* save_config(): the files and the changed set afterwards, the value
\* returned, the step that failed, whether the commit step was reached and
\* whether the swap file parsed.
SaveConfig(dict, real, chg, write, later) ==
    LET swap == IF write = "ok" THEN File(Json(dict))
                ELSE IF write = "nofile" THEN Absent
                ELSE File(Malformed)
        failure(step, r, s) ==
            [real |-> r, swap |-> s, changed |-> chg, ret |-> FALSE, failed |-> step,
             committed |-> FALSE, swapParsed |-> Exists(swap) /\ Content(swap).parses]
    IN IF write \in {"partial", "nofile"}
       THEN failure("write", real, IF Exists(swap) THEN RemoveSwap(swap) ELSE swap)
       ELSE IF ConfigConstruct(swap, later # "validate").raised
       THEN failure("validate", real, RemoveSwap(swap))
       ELSE IF later = "commit"
       THEN failure("commit", CopyFile(swap, real, FALSE), RemoveSwap(swap))
       ELSE [real |-> CopyFile(swap, real, TRUE), swap |-> RemoveSwap(swap),
             changed |-> {}, ret |-> TRUE, failed |-> "none",
             committed |-> TRUE, swapParsed |-> Content(swap).parses]

\* The names of the .json files that can lie in the configs directory.
ConfigFileNames == {"config.json", "config_example.json", "a.json", "b.json", "my.json"}

\* The listings os.scandir can give: up to MaxListing of the names, in any
\* order, none twice.
Listings ==
    {l \in UNION {[1..n -> ConfigFileNames] : n \in 0..MaxListing} :
       \A i, k \in DOMAIN l : i # k => l[i] # l[k]}

\* The loop over configs in __init__: the path it leaves in self.config_path.
RECURSIVE ScanConfigs(_, _)
ScanConfigs(listing, path) ==
    IF listing = <<>> THEN path
    ELSE IF Head(listing) = "config.json" THEN Head(listing)
    ELSE IF Head(listing) # "config_example.json" THEN ScanConfigs(Tail(listing), Head(listing))
    ELSE ScanConfigs(Tail(listing), path)

\* The settings file __init__ reads, given its config_path argument and the
\* listing of the configs directory.
ChooseConfigPath(given, listing) ==
    IF given # None THEN given
    ELSE LET path == ScanConfigs(listing, None)
         IN IF path = None THEN "config_example.json" ELSE path

VARIABLES
    configs,     \* the .json files of the configs directory, as os.scandir lists them
    given,       \* the config_path argument of the construction
    config_path, \* self.config_path
    cfgDict,    \* self.dict
    cfgAttrs,   \* the attributes foreground_color, background_color and debug
    changed,    \* self.changed_values
    realFile,   \* the file at self.config_path
    swapFile,   \* the file at swap_path
    clast       \* the last call: which, its arguments, what it returned, which step failed

cfgPath == <<configs, given, config_path>>

cfgVars == <<cfgPath, cfgDict, cfgAttrs, changed, realFile, swapFile, clast>>

NoConfigCall ==
    [op |-> "none", key |-> "", value |-> "", ret |-> FALSE, failed |-> "none",
     committed |-> FALSE, swapParsed |-> FALSE]

\* The objects a settings file holds at start.
ConfigDocs ==
    { NoDoc,
      [k \in {"foreground_color"} |-> "black"],
      [k \in Settings |-> IF k = "foreground_color" THEN "white" ELSE "black"] }

\* Config() on a settings file that is missing, does not parse, or holds one
\* of ConfigDocs.
ConfigInit ==
    /\ configs = <<"config_example.json", "config.json">>
    /\ given = None
    /\ config_path = ChooseConfigPath(None, configs)
    /\ realFile \in {Absent, File(Malformed)} \cup {File(Json(d)) : d \in ConfigDocs}
    /\ cfgDict = ConfigConstruct(realFile, TRUE).dict
    /\ cfgAttrs = ConfigConstruct(realFile, TRUE).attrs
    /\ changed = {}
    /\ swapFile = Absent
    /\ clast = NoConfigCall

ConfigIdle ==
    /\ configs = <<>>
    /\ given = None
    /\ config_path = ChooseConfigPath(None, <<>>)
    /\ realFile = Absent
    /\ cfgDict = NoDoc
    /\ cfgAttrs = Attributes(NoDoc)
    /\ changed = {}
    /\ swapFile = Absent
    /\ clast = NoConfigCall

\* No Config yet, over a configs directory with any of Listings; every file
\* listed holds the empty object.
PathInit ==
    /\ configs \in Listings
    /\ given = None
    /\ config_path = ""
    /\ realFile = Absent
    /\ cfgDict = NoDoc
    /\ cfgAttrs = Attributes(NoDoc)
    /\ changed = {}
    /\ swapFile = Absent
    /\ clast = NoConfigCall

\* Config(config_path=g): the choice of the settings file and its load.
ConstructConfig ==
    \E g \in {None, "config_swap_1.json"} :
        LET path == ChooseConfigPath(g, configs)
            file == IF path \in Range(configs) THEN File(Json(NoDoc)) ELSE Absent
        IN /\ given' = g
           /\ config_path' = path
           /\ realFile' = file
           /\ cfgDict' = ConfigConstruct(file, TRUE).dict
           /\ cfgAttrs' = ConfigConstruct(file, TRUE).attrs
           /\ changed' = {}
           /\ clast' = [NoConfigCall EXCEPT !.op = "construct", !.ret = TRUE]
           /\ UNCHANGED <<configs, swapFile>>

\* set_config_value(key, value): hasattr(self, key) holds for every attribute
\* of the instance, declared setting or not.
SetConfigValue ==
    \E key \in ConfigKeys, value \in ConfigValues :
        IF key \in DOMAIN cfgAttrs /\ cfgAttrs[key] # value
        THEN /\ cfgAttrs' = [cfgAttrs EXCEPT ![key] = value]
             /\ cfgDict' = [k \in DOMAIN cfgDict \cup {key} |->
                              IF k = key THEN value ELSE cfgDict[k]]
             /\ changed' = changed \cup {key}
             /\ clast' = [NoConfigCall EXCEPT !.op = "set", !.key = key, !.value = value,
                                              !.ret = TRUE]
             /\ UNCHANGED <<cfgPath, realFile, swapFile>>
        ELSE /\ clast' = [NoConfigCall EXCEPT !.op = "set", !.key = key, !.value = value]
             /\ UNCHANGED <<cfgPath, cfgDict, cfgAttrs, changed, realFile, swapFile>>

\* clear_changes()
ClearChanges ==
    /\ changed' = {}
    /\ clast' = [NoConfigCall EXCEPT !.op = "clear"]
    /\ UNCHANGED <<cfgPath, cfgDict, cfgAttrs, realFile, swapFile>>

\* save_config()
SaveConfigCall ==
    \E write \in SwapWrites, later \in LaterFaults :
        LET r == SaveConfig(cfgDict, realFile, changed, write, later) IN
        /\ realFile' = r.real
        /\ swapFile' = r.swap
        /\ changed' = r.changed
        /\ clast' = [NoConfigCall EXCEPT !.op = "save", !.ret = r.ret, !.failed = r.failed,
                                         !.committed = r.committed,
                                         !.swapParsed = r.swapParsed]
        /\ UNCHANGED <<cfgPath, cfgDict, cfgAttrs>>

(***************************************************************************)
(* MAIN WINDOW: src/main.py                                                *)
(***************************************************************************)
(* ENCRYPTION STRATEGY: src/utils/encryption_strategy.py                   *)
(***************************************************************************)
\* The members of the enumeration and their values; a text is the sequence
\* of its characters.
EncryptionStrategy ==
    [UNKNOWN |-> <<"u", "n", "k", "n", "o", "w", "n">>,
     NONE |-> <<"n", "o", "n", "e">>,
     STANDARD |-> <<"s", "t", "a", "n", "d", "a", "r", "d">>,
     OQS |-> <<"o", "q", "s">>]

\* Python's None where the value is otherwise a text.
NoValue == <<None>>

\* str.lower() of a text.
StrLower(value) == [i \in DOMAIN value |-> Lower(value[i])]

\* __str__: the member's value.
Str(strategy) == EncryptionStrategy[strategy]

\* from_string compared without lower-casing.
FromString_CaseSensitive(value) ==
    IF value = NoValue THEN "UNKNOWN"
    ELSE IF \E strategy \in DOMAIN EncryptionStrategy : EncryptionStrategy[strategy] = value
    THEN CHOOSE strategy \in DOMAIN EncryptionStrategy : EncryptionStrategy[strategy] = value
    ELSE "UNKNOWN"

\* from_string(value): the member whose value is value.lower(), else UNKNOWN.
\* The values are pairwise different, so the loop finds at most one.
FromString(value) ==
    IF value = NoValue THEN "UNKNOWN"
    ELSE LET value_lower == StrLower(value)
         IN IF \E strategy \in DOMAIN EncryptionStrategy :
                   EncryptionStrategy[strategy] = value_lower
            THEN CHOOSE strategy \in DOMAIN EncryptionStrategy :
                   EncryptionStrategy[strategy] = value_lower
            ELSE "UNKNOWN"

\* Every way of writing a text in upper and lower case.
Casings(text) ==
    {[i \in DOMAIN text |-> IF i \in m THEN Upper(text[i]) ELSE text[i]] :
       m \in SUBSET DOMAIN text}

\* The characters of the short texts given to from_string.
TextAlphabet == {"o", "Q", "s", " "}

ShortTexts == UNION {[1..n -> TextAlphabet] : n \in 0..MaxText}

\* The arguments of from_string: None, the four values in every casing, every
\* short text, and some texts that match no value.
StrategyInputs ==
    {NoValue}
      \cup UNION {Casings(Str(s)) : s \in DOMAIN EncryptionStrategy}
      \cup ShortTexts
      \cup { <<"g", "a", "r", "b", "a", "g", "e">>,
             <<"n", "o", "n", "e", " ">>,
             <<"s", "t", "a", "n", "d", "a", "r", "d", "s">>,
             <<"0", "q", "s">>,
             <<"u", "n", KelvinSign, "n", "o", "w", "n">> }

VARIABLES
    slast       \* the last call of from_string: its argument and what it returned

NoStrategyCall == [op |-> "none", value |-> NoValue, ret |-> "UNKNOWN"]

StrategyIdle == slast = NoStrategyCall

\* EncryptionStrategy.from_string(value)
FromStringCall ==
    \E value \in StrategyInputs :
        slast' = [op |-> "from_string", value |-> value, ret |-> FromString(value)]

(***************************************************************************)
(* CACHE SIZE: src/main.py, get_cache_size                                 *)
(***************************************************************************)
\* The units of the loop; what is left after them is reported in TB.
Units == <<"B", "KB", "MB", "GB">>

\* A byte count is the sequence of its digits in base 1024, the lowest at
\* position 0 and the count of whole TB at position Len(Units).  The value the
\* loop holds in iteration k is the byte count divided by 1024^k: the digits
\* from position k up are its whole part and those below k its fraction.
\* Dividing by 1024.0 is exact in binary floating point.
Positions == 0..Len(Units)

SizeDigits == {0, 1, 128, 384, 1023}

HighDigits == {0, 1, 1023}

TBCounts == (0..MaxTB) \cup {1024}

Sizes ==
    {d \in [Positions -> SizeDigits \cup TBCounts] :
       /\ \A j \in 0..1 : d[j] \in SizeDigits
       /\ \A j \in 2..(Len(Units) - 1) : d[j] \in HighDigits
       /\ d[Len(Units)] \in TBCounts}

\* size_bytes < 1024.0 compared with <= instead.
Below1024_Inclusive(d, k) ==
    /\ \A j \in Positions : j > k + 1 => d[j] = 0
    /\ \/ d[k + 1] = 0
       \/ d[k + 1] = 1 /\ \A j \in 0..k : d[j] = 0

\* size_bytes < 1024.0 in iteration k
Below1024(d, k) == \A j \in Positions : j > k => d[j] = 0

\* The whole part of the value of iteration k.
RECURSIVE Whole(_, _)
Whole(d, k) ==
    IF k > Len(Units) THEN 0 ELSE d[k] + 1024 * Whole(d, k + 1)

\* 100 times the fraction of the value of iteration k, digit by digit from
\* position i: its whole part, and how what is left compares with one half.
RECURSIVE Scale(_, _, _, _, _)
Scale(d, i, k, carry, low) ==
    IF k = 0 THEN [floor |-> 0, top |-> 0, low |-> FALSE]
    ELSE LET t == 100 * d[i] + carry
         IN IF i = k - 1
            THEN [floor |-> t \div 1024, top |-> t % 1024, low |-> low]
            ELSE Scale(d, i + 1, k, t \div 1024, low \/ (t % 1024 # 0))

\* f"{size_bytes:.2f}": the value in hundredths, correctly rounded, a tie
\* going to the even neighbour.
Hundredths(d, k) ==
    LET s == Scale(d, 0, k, 0, FALSE)
        up == \/ s.top > 512
              \/ s.top = 512 /\ s.low
              \/ s.top = 512 /\ ~s.low /\ s.floor % 2 = 1
    IN 100 * Whole(d, k) + s.floor + (IF up THEN 1 ELSE 0)

\* f"{size_bytes:.2f} {unit}": the digits before the point, the two after it
\* and the unit.
SizeText(d, k, unit) ==
    [whole |-> Hundredths(d, k) \div 100, cents |-> Hundredths(d, k) % 100, unit |-> unit]

\* I18N._(text): the text itself when no translation catalog is configured.
Translate(text) == text

\* The loop over the units, from iteration k.
RECURSIVE UnitLoop(_, _)
UnitLoop(d, k) ==
    IF k > Len(Units) THEN SizeText(d, Len(Units), "TB")
    ELSE IF Below1024(d, k - 1) THEN SizeText(d, k - 1, Units[k])
    ELSE UnitLoop(d, k + 1)

NoSize == [j \in Positions |-> 0]

\* What the file system answers: no file, a file whose size cannot be read,
\* or a file of a size.
SizeAnswers == {"missing", "unreadable", "file"}

\* The files get_cache_size is asked about.
SizeFiles ==
    {[answer |-> a, size |-> NoSize] : a \in SizeAnswers \ {"file"}}
      \cup {[answer |-> "file", size |-> d] : d \in Sizes}

\* get_cache_size(cache_location)
GetCacheSize(answer, d) ==
    IF answer = "missing" THEN Translate("Not found")
    ELSE IF answer = "unreadable" THEN Translate("Error")
    ELSE UnitLoop(d, 1)

VARIABLES
    zlast       \* the last call of get_cache_size: what the file system answered, what was returned

NoSizeCall == [op |-> "none", answer |-> "missing", size |-> NoSize, ret |-> ""]

SizeIdle == zlast = NoSizeCall

fnVars == <<slast, zlast>>

\* get_cache_size(cache_location) on a file of any of Sizes
GetCacheSizeCall ==
    \E f \in SizeFiles :
        zlast' = [op |-> "get_cache_size", answer |-> f.answer, size |-> f.size,
                  ret |-> GetCacheSize(f.answer, f.size)]

(***************************************************************************)
\* The characters of the display names the window passes to create_backup.
Chars(name) ==
    IF name = "Cache Manager"
    THEN <<"C", "a", "c", "h", "e", " ", "M", "a", "n", "a", "g", "e", "r">>
    ELSE IF name = "App A" THEN <<"A", "p", "p", " ", "A">>
    ELSE IF name = "App B" THEN <<"A", "p", "p", " ", "B">>
    ELSE <<>>

\* What AddEditApplicationDialog.get_data() returns in this model: a
\* complete form and one with an empty field.
DialogData ==
    { <<"App B", "svc", "id", "/b.enc", "standard">>,
      <<"App A", "svc", "", "/a.enc", "oqs">> }

\* all(data.values())
AllValues(d) == \A i \in DOMAIN d : d[i] # "" /\ d[i] # None

\* The cache files the rows of the table point to.
WindowLocations == {CACHE_LOC, "/b.enc"}

\* What fails in a create_backup call made from the window.
WindowFaults == {"none", "verify"}

\* sorted(selected_rows): lowest row first.
RECURSIVE SortedReverse_Ascending(_)
SortedReverse_Ascending(rows) ==
    IF rows = {} THEN <<>>
    ELSE LET m == CHOOSE r \in rows : \A q \in rows : r <= q
         IN <<m>> \o SortedReverse_Ascending(rows \ {m})

\* sorted(selected_rows, reverse=True)
RECURSIVE SortedReverse(_)
SortedReverse(rows) ==
    IF rows = {} THEN <<>>
    ELSE LET m == CHOOSE r \in rows : \A q \in rows : r >= q
         IN <<m>> \o SortedReverse(rows \ {m})

\* Iteration over the set selected_rows (create_backup), and
\* list(selected_rows)[0] (edit_application): a set of small row numbers is
\* walked in ascending order.
RECURSIVE SetOrder(_)
SetOrder(rows) ==
    IF rows = {} THEN <<>>
    ELSE LET m == CHOOSE r \in rows : \A q \in rows : r <= q
         IN <<m>> \o SetOrder(rows \ {m})

\* The loop of remove_application: remove_application(row) for each row in
\* turn, each with the outcome of its store(); a raise of store() leaves the
\* handler.
RECURSIVE RemoveRows(_, _, _, _, _)
RemoveRows(apps, e, j, rows, outcomes) ==
    IF rows = <<>> THEN [cache |-> apps, enc |-> e, json |-> j, raised |-> FALSE]
    ELSE LET row == Head(rows) IN
         IF ~InRange(row, Len(apps)) THEN RemoveRows(apps, e, j, Tail(rows), outcomes)
         ELSE LET a == DelAt(apps, row)
                  st == Store(a, e, j, outcomes[row])
              IN IF st.ret = "raise"
                 THEN [cache |-> a, enc |-> st.enc, json |-> st.json, raised |-> TRUE]
                 ELSE RemoveRows(a, st.enc, st.json, Tail(rows), outcomes)

\* The loop of create_backup: one backup_manager.create_backup call per
\* selected row, each at its own reading of the clock.  A row past the end of
\* the list raises IndexError and leaves the handler.
RECURSIVE BackupRows(_, _, _, _, _, _, _, _)
BackupRows(apps, rows, files, meta, caches, t, faults, hist) ==
    IF rows = <<>>
    THEN [files |-> files, meta |-> meta, clock |-> t, raised |-> FALSE,
          blast |-> hist.blast, made |-> hist.made, allOk |-> hist.allOk]
    ELSE LET row == Head(rows) IN
         IF row >= Len(apps)
         THEN [files |-> files, meta |-> meta, clock |-> t, raised |-> TRUE,
               blast |-> hist.blast, made |-> hist.made, allOk |-> hist.allOk]
         ELSE LET app == apps[row + 1]
                  present == Exists(caches[app.cache_location])
                  fault == IF present THEN faults[row] ELSE "missing"
                  now == IF present THEN t + 1 ELSE t
                  r == CreateBackup(files, meta, caches, DefaultMaxBackups,
                                    Chars(app.name), app.cache_location, now, fault)
                  h == [blast |-> [fault |-> fault,
                                   path |-> IF present THEN BackupPath(Chars(app.name), now)
                                            ELSE NoPath,
                                   ret |-> r.ret],
                        made |-> IF r.ret = NoPath THEN hist.made
                                 ELSE Append(hist.made, [app |-> Chars(app.name),
                                                         path |-> r.ret, timestamp |-> now]),
                        allOk |-> (hist.allOk /\ r.ret # NoPath /\ fault = "none")]
              IN BackupRows(apps, Tail(rows), r.files, r.meta, caches, now, faults, h)

\* refresh_applications(): the table has one row per entry; a selected row
\* that no longer exists is no longer selected; the Create Backup button is
\* enabled when a row is selected.
RefreshApplications(apps, sel) ==
    LET kept == {r \in sel : r < Len(apps)}
    IN [rowCount |-> Len(apps), selected |-> kept, backup_btn |-> kept # {}]

VARIABLES
    rowCount,     \* self.apps_table.rowCount()
    selected,     \* the rows of self.apps_table.selectedItems()
    backup_btn,   \* self.backup_btn.isEnabled()
    wlast         \* the last handler: which, how many rows were selected, whether it ran to its end

winVars == <<rowCount, selected, backup_btn, wlast>>

NoHandler == [op |-> "none", n |-> 0, done |-> FALSE]

\* No window.
WindowIdle ==
    /\ rowCount = 0
    /\ selected = {}
    /\ backup_btn = FALSE
    /\ wlast = NoHandler

\* The registries a window is opened on: up to MaxRows entries, the own entry
\* among them.
WindowDocs ==
    LET entries == {SelfEntry} \cup {AppOf(d) : d \in {e \in DialogData : AllValues(e)}}
    IN {doc \in UNION {[1..n -> entries] : n \in 1..MaxRows} : HasSelf(doc)}

\* CacheManagerWindow() over a constructed registry whose last persist
\* encrypted: the backup manager has the default limit and an empty backups
\* directory, setup_ui() disabled the button and refresh_applications() filled
\* the table.
WindowInit ==
    /\ phase = "up"
    /\ cache \in WindowDocs
    /\ enc = File(cache)
    /\ json = Absent
    /\ bak = EmptyBak
    /\ captured = EmptyBak
    /\ last = NoCall
    /\ added = [u \in UserEntries |-> 0]
    /\ noFault = TRUE
    /\ runs = 1
    /\ ops = 0
    /\ max_backups_per_app = DefaultMaxBackups
    /\ cacheFiles = [l \in WindowLocations |->
                       IF l = CACHE_LOC THEN File("ciphertext") ELSE Absent]
    /\ backupFiles = NoDir
    /\ metadata = NoDir
    /\ clock = 0
    /\ blast = NoBackupCall
    /\ made = <<>>
    /\ allOk = TRUE
    /\ qlast = NoQuery
    /\ rowCount = RefreshApplications(cache, {}).rowCount
    /\ selected = RefreshApplications(cache, {}).selected
    /\ backup_btn = RefreshApplications(cache, {}).backup_btn
    /\ wlast = NoHandler

\* The parts of the registry and of the backup manager that no handler of the
\* window changes or that are histories of their own specifications.
regRest == <<phase, bak, last, added, noFault, runs, captured>>

bkRest == <<max_backups_per_app, cacheFiles, qlast>>

bkAll == <<backupFiles, metadata, clock, blast, made, allOk>>

\* The user changes the selection of the table.  Nothing is connected to the
\* selection model.
SelectionChange ==
    /\ \E rows \in SUBSET (0..(rowCount - 1)) :
          /\ rows # selected
          /\ selected' = rows
    /\ wlast' = [NoHandler EXCEPT !.op = "select", !.done = TRUE]
    /\ UNCHANGED <<rowCount, backup_btn, cache, enc, json, ops, regRest, bkRest, bkAll>>

\* The refresh timer fires, or the Refresh button is clicked.
TimerRefresh ==
    LET w == RefreshApplications(cache, selected) IN
    /\ rowCount' = w.rowCount
    /\ selected' = w.selected
    /\ backup_btn' = w.backup_btn
    /\ wlast' = [NoHandler EXCEPT !.op = "refresh", !.done = TRUE]
    /\ UNCHANGED <<cache, enc, json, ops, regRest, bkRest, bkAll>>

\* A handler that changed the registry: when store() raised, the exception
\* leaves the slot before refresh_applications().
AfterRegistryCall(op, apps, st, n) ==
    LET w == IF st.ret = "raise"
             THEN [rowCount |-> rowCount, selected |-> selected, backup_btn |-> backup_btn]
             ELSE RefreshApplications(apps, selected)
    IN /\ cache' = apps
       /\ enc' = st.enc
       /\ json' = st.json
       /\ rowCount' = w.rowCount
       /\ selected' = w.selected
       /\ backup_btn' = w.backup_btn
       /\ wlast' = [op |-> op, n |-> n, done |-> st.ret # "raise"]
       /\ ops' = ops + Max(n, 1)

\* A handler that returned before it changed anything.
NothingDone(op) ==
    /\ wlast' = [NoHandler EXCEPT !.op = op, !.n = Cardinality(selected)]
    /\ UNCHANGED <<cache, enc, json, ops, rowCount, selected, backup_btn>>

\* CacheManagerWindow.add_application()
WindowAddApplication ==
    /\ Len(cache) < MaxRows
    /\ ops < MaxOps
    /\ \E accepted \in BOOLEAN, d \in DialogData, outcome \in PersistOutcomes :
          IF accepted /\ AllValues(d)
          THEN AfterRegistryCall("add", Append(cache, AppOf(d)),
                                 Store(Append(cache, AppOf(d)), enc, json, outcome), 0)
          ELSE NothingDone("add")
    /\ UNCHANGED <<regRest, bkRest, bkAll>>

\* CacheManagerWindow.edit_application()
WindowEditApplication ==
    /\ ops < MaxOps
    /\ \E accepted \in BOOLEAN, d \in DialogData, outcome \in PersistOutcomes :
          IF selected = {} THEN NothingDone("edit")
          ELSE LET row == Head(SetOrder(selected)) IN
               IF row >= Len(cache) \/ ~accepted \/ ~AllValues(d)
               THEN NothingDone("edit")
               ELSE AfterRegistryCall("edit", SetAt(cache, row, AppOf(d)),
                                      Store(SetAt(cache, row, AppOf(d)), enc, json, outcome),
                                      1)
    /\ UNCHANGED <<regRest, bkRest, bkAll>>

\* CacheManagerWindow.remove_application()
WindowRemoveApplication ==
    /\ ops + Cardinality(selected) <= MaxOps
    /\ \E yes \in BOOLEAN, outcomes \in [selected -> PersistOutcomes] :
          IF selected = {} \/ ~yes THEN NothingDone("remove")
          ELSE LET r == RemoveRows(cache, enc, json, SortedReverse(selected), outcomes)
               IN AfterRegistryCall("remove", r.cache,
                                    [enc |-> r.enc, json |-> r.json,
                                     ret |-> IF r.raised THEN "raise" ELSE "true"],
                                    Cardinality(selected))
    /\ UNCHANGED <<regRest, bkRest, bkAll>>

\* CacheManagerWindow.create_backup() for the rows in sel.
RunCreateBackup(op, sel) ==
    IF sel = {}
    THEN /\ wlast' = [NoHandler EXCEPT !.op = op]
         /\ UNCHANGED <<rowCount, backup_btn, bkAll>>
    ELSE /\ clock + Cardinality(sel) <= MaxWindowBackups
         /\ \E faults \in [sel -> WindowFaults] :
              LET b == BackupRows(cache, SetOrder(sel), backupFiles, metadata, cacheFiles,
                                  clock, faults,
                                  [blast |-> blast, made |-> made, allOk |-> allOk])
                  w == IF b.raised
                       THEN [rowCount |-> rowCount, selected |-> sel,
                             backup_btn |-> backup_btn]
                       ELSE RefreshApplications(cache, sel)
              IN /\ backupFiles' = b.files
                 /\ metadata' = b.meta
                 /\ clock' = b.clock
                 /\ blast' = b.blast
                 /\ made' = b.made
                 /\ allOk' = b.allOk
                 /\ rowCount' = w.rowCount
                 /\ backup_btn' = w.backup_btn
                 /\ wlast' = [op |-> op, n |-> Cardinality(sel), done |-> ~b.raised]

\* A click on the Create Backup button, which takes the button to be enabled.
WindowCreateBackup ==
    /\ backup_btn
    /\ RunCreateBackup("backup", selected)
    /\ selected' = {r \in selected : wlast'.done => r < Len(cache)}
    /\ UNCHANGED <<cache, enc, json, ops, regRest, bkRest>>

\* A double click on a row: the click selects the row, then
\* on_app_double_clicked() runs create_backup().
OnAppDoubleClicked ==
    /\ \E row \in 0..(rowCount - 1) :
          /\ RunCreateBackup("doubleclick", {row})
          /\ selected' = {r \in {row} : wlast'.done => r < Len(cache)}
    /\ UNCHANGED <<cache, enc, json, ops, regRest, bkRest>>

FnIdle == StrategyIdle /\ SizeIdle

Init == RegInit /\ BackupIdle /\ ConfigIdle /\ WindowIdle /\ FnIdle

vars == <<regVars, bkVars, cfgVars, winVars, fnVars>>

Next ==
    \/ LoadStep /\ UNCHANGED <<bkVars, cfgVars, winVars, fnVars>>
    \/ AddSelfStep /\ UNCHANGED <<bkVars, cfgVars, winVars, fnVars>>
    \/ AddApplication /\ UNCHANGED <<bkVars, cfgVars, winVars, fnVars>>
    \/ RemoveApplication /\ UNCHANGED <<bkVars, cfgVars, winVars, fnVars>>
    \/ UpdateApplication /\ UNCHANGED <<bkVars, cfgVars, winVars, fnVars>>
    \/ Exit /\ UNCHANGED <<bkVars, cfgVars, winVars, fnVars>>

\* The registry from a first run on an empty disk.
Spec == Init /\ [][Next]_vars

\* The documents found on disk at a process start in LoadSpec.
DiskDocs ==
    { <<SelfEntry>>,
      <<SelfEntry, AppOf(<<"App A", "svc", "id", "/a.enc", None>>)>>,
      <<AppOf(<<"App B", "svc", "id", "/b.enc", "standard">>)>> }

DiskFiles == {Absent} \cup {File(d) : d \in DiskDocs}

\* A process start on any disk: every registry file is missing or holds one of
\* DiskDocs (files can be deleted or restored between runs).
LoadInit ==
    /\ phase = "down"
    /\ cache = <<>>
    /\ enc \in DiskFiles
    /\ json \in DiskFiles
    /\ bak \in [GetBackupPaths -> DiskFiles]
    /\ captured = [k \in GetBackupPaths |->
                     IF Exists(bak[k]) THEN File([run |-> 0, doc |-> Content(bak[k])])
                     ELSE Absent]
    /\ last = NoCall
    /\ added = [u \in UserEntries |-> 0]
    /\ noFault = TRUE
    /\ runs = 0
    /\ ops = 0
    /\ BackupIdle
    /\ ConfigIdle
    /\ WindowIdle
    /\ FnIdle

LoadNext ==
    \/ LoadStep /\ UNCHANGED <<bkVars, cfgVars, winVars, fnVars>>
    \/ AddSelfStep /\ UNCHANGED <<bkVars, cfgVars, winVars, fnVars>>

\* One construction of the registry on any disk.
LoadSpec == LoadInit /\ [][LoadNext]_vars

\* The registry, idle.
RegIdle == RegInit

\* A backup manager over tracked cache files.
BackupSpecInit == BackupInit /\ RegIdle /\ ConfigIdle /\ WindowIdle /\ FnIdle

BackupNext ==
    \/ CreateBackupCall /\ UNCHANGED <<regVars, cfgVars, winVars, fnVars>>

BackupSpec == BackupSpecInit /\ [][BackupNext]_vars

\* Queries on a backups directory left by earlier runs.
QuerySpecInit == QueryInit /\ RegIdle /\ ConfigIdle /\ WindowIdle /\ FnIdle

QueryNext ==
    \/ QueryBackups /\ UNCHANGED <<regVars, cfgVars, winVars, fnVars>>

QuerySpec == QuerySpecInit /\ [][QueryNext]_vars

\* A settings loader and the calls made on it.
ConfigSpecInit == ConfigInit /\ RegIdle /\ BackupIdle /\ WindowIdle /\ FnIdle

ConfigNext ==
    \/ SetConfigValue /\ UNCHANGED <<regVars, bkVars, winVars, fnVars>>
    \/ ClearChanges /\ UNCHANGED <<regVars, bkVars, winVars, fnVars>>
    \/ SaveConfigCall /\ UNCHANGED <<regVars, bkVars, winVars, fnVars>>

ConfigSpec == ConfigSpecInit /\ [][ConfigNext]_vars

\* The construction of a settings loader over any configs directory.
PathSpecInit == PathInit /\ RegIdle /\ BackupIdle /\ WindowIdle /\ FnIdle

PathNext ==
    \/ ConstructConfig /\ UNCHANGED <<regVars, bkVars, winVars, fnVars>>

PathSpec == PathSpecInit /\ [][PathNext]_vars

\* The main window over a constructed registry and a backup manager.
WindowSpecInit == WindowInit /\ ConfigIdle /\ FnIdle

WindowNext ==
    \/ SelectionChange /\ UNCHANGED <<cfgVars, fnVars>>
    \/ TimerRefresh /\ UNCHANGED <<cfgVars, fnVars>>
    \/ WindowAddApplication /\ UNCHANGED <<cfgVars, fnVars>>
    \/ WindowEditApplication /\ UNCHANGED <<cfgVars, fnVars>>
    \/ WindowRemoveApplication /\ UNCHANGED <<cfgVars, fnVars>>
    \/ WindowCreateBackup /\ UNCHANGED <<cfgVars, fnVars>>
    \/ OnAppDoubleClicked /\ UNCHANGED <<cfgVars, fnVars>>

WindowSpec == WindowSpecInit /\ [][WindowNext]_vars

\* Calls of EncryptionStrategy.from_string.
StrategySpecInit ==
    RegIdle /\ BackupIdle /\ ConfigIdle /\ WindowIdle /\ StrategyIdle /\ SizeIdle

StrategyNext ==
    \/ FromStringCall /\ UNCHANGED <<regVars, bkVars, cfgVars, winVars, zlast>>

StrategySpec == StrategySpecInit /\ [][StrategyNext]_vars

\* Calls of get_cache_size.
SizeSpecInit ==
    RegIdle /\ BackupIdle /\ ConfigIdle /\ WindowIdle /\ StrategyIdle /\ SizeIdle

SizeNext ==
    \/ GetCacheSizeCall /\ UNCHANGED <<regVars, bkVars, cfgVars, winVars, slast>>

SizeSpec == SizeSpecInit /\ [][SizeNext]_vars

(***************************************************************************)
(* Claims about the registry.                                              *)
(***************************************************************************)

\* C1: registry round-trip.  After a restart (a construction that is not the
\* first), every entry that was added with add_application and not removed or
\* updated since is in get_applications(), in every behaviour in which no
\* store() raised and no decryption and no rotation step failed.
C1_RoundTrip ==
    (phase = "up" /\ last.op = "init" /\ runs >= 2 /\ noFault)
        => \A u \in UserEntries : added[u] > 0 => u \in Range(cache)

\* C4: backup rotation is a generational shift.  A load that adopts the
\* primary file leaves the primary as it was, makes generation 1 a copy of it
\* and makes each generation k in 2..4 hold exactly what generation k-1 held
\* before (absent if generation k-1 was absent).
C4_GenerationalShift ==
    [][ (phase = "down" /\ phase' = "loaded" /\ last'.source = "primary")
          => /\ enc' = enc
             /\ bak'[1] = enc
             /\ \A k \in 2..NUM_BACKUPS : bak'[k] = bak[k - 1] ]_vars

\* C5: legacy migration deletes its source only on success.  After a load that
\* found the legacy plaintext file: if the encrypted store failed, the
\* plaintext file still exists and the document in memory equals its
\* contents; if it succeeded, the plaintext file is gone and the primary file
\* decrypts to the document in memory.
C5_LegacyMigration ==
    (phase = "loaded" /\ last.source = "legacy")
        => /\ last.ret # "true" => (Exists(json) /\ cache = Content(json))
           /\ last.ret = "true" => (~Exists(json) /\ enc = File(cache))

\* The largest number of entries with this application's own pair in any
\* registry file on disk.
DiskSelfMax ==
    LET files == {enc, json} \cup {bak[k] : k \in GetBackupPaths}
        counts == {SelfCount(Content(f)) : f \in {g \in files : Exists(g)}} \cup {0}
    IN CHOOSE n \in counts : \A m \in counts : m <= n

\* C8: self-registration is idempotent.  load() never holds more entries with
\* this application's own pair than a file on disk does; when initialization
\* completes the list holds such an entry, and _add_self_to_cache() adds one
\* only when there was none: on a document that has one it changes neither
\* the document nor any file.
C8_SelfRegistrationIdempotent ==
    [][ /\ (phase = "down" /\ phase' = "loaded") => SelfCount(cache') <= DiskSelfMax
        /\ (phase = "loaded" /\ phase' = "up")
              => /\ SelfCount(cache') = Max(1, SelfCount(cache))
                 /\ SelfCount(cache) >= 1
                       => (cache' = cache /\ enc' = enc /\ json' = json) ]_vars

\* C8 witness: a second initialization that loaded what the first persisted
\* and ends with exactly one entry for this application.
C8_Witness ==
    /\ phase = "up" /\ last.op = "init" /\ runs >= 2
    /\ last.source = "primary" /\ noFault
    /\ SelfCount(cache) = 1 /\ enc = File(cache)

\* C9: at most one entry carries this application's own
\* (service_name, app_identifier) pair, in every reachable state.
C9_AtMostOneSelf == SelfCount(cache) <= 1

\* C10: remove_application and update_application with an index outside
\* [0, len(applications)) leave the list unchanged, raise nothing and write no
\* registry file.
C10_IndexBounded ==
    [][ ( /\ ops' = ops + 1
          /\ last'.op \in {"remove", "update"}
          /\ (last'.index < 0 \/ last'.index >= Len(cache)) )
          => /\ cache' = cache
             /\ enc' = enc /\ json' = json /\ bak' = bak
             /\ last'.ret = "none" ]_vars

\* C10 witness: a negative index was given while the list had entries, and
\* an index past the end likewise.
C10_Witness ==
    /\ last.op \in {"remove", "update"} /\ ~last.inRange
    /\ last.index < 0 /\ Len(cache) >= 1

(***************************************************************************)
(* Claims about the backup manager.                                        *)
(***************************************************************************)

\* C2: a failed verification is fully contained.  Whenever the decryption of
\* the freshly copied backup file fails, create_backup returns no value, the
\* backup file it just created is not on disk afterwards, no metadata file
\* changes, and every tracked cache file is as it was before the call.
C2_VerificationContained ==
    [][ (clock' # clock /\ blast'.fault = "verify")
          => /\ blast'.ret = NoPath
             /\ blast'.path \notin DOMAIN backupFiles'
             /\ metadata' = metadata
             /\ cacheFiles' = cacheFiles ]_vars

\* C2 witness: a verification failed after an earlier backup had been
\* recorded.
C2_Witness ==
    /\ blast.fault = "verify" /\ blast.ret = NoPath
    /\ blast.path \notin DOMAIN backupFiles
    /\ made # <<>>

\* C3: retention cap.  After any sequence of n successful, fault-free
\* create_backup calls for one application, made at increasing timestamps,
\* the application's metadata file holds exactly the min(n, m) most recent
\* backups (m = max_backups_per_app, m >= 0), the files of the older ones are
\* gone and the files of the retained ones exist.
C3_RetentionCap ==
    (allOk /\ made # <<>> /\ \A i \in DOMAIN made : made[i].app = made[1].app)
      => LET n == Len(made)
             k == Min(n, max_backups_per_app)
             recs == ListBackups(metadata, made[1].app, TRUE)
         IN /\ Len(recs) <= max_backups_per_app
            /\ recs = [i \in 1..k |-> [path |-> made[n - k + i].path,
                                       timestamp |-> made[n - k + i].timestamp]]
            /\ \A i \in 1..(n - k) : made[i].path \notin DOMAIN backupFiles
            /\ \A i \in (n - k + 1)..n : made[i].path \in DOMAIN backupFiles

(***************************************************************************)
(* Claims about the settings loader.                                       *)
(***************************************************************************)

\* C6: settings save atomicity.  Whenever save_config() fails at a step (swap
\* write, swap validation, commit copy) it returns failure, the real settings
\* file is as it was before the call and no swap file remains; whenever it
\* succeeds no swap file remains either.
C6_SaveAtomic ==
    [][ clast'.op = "save"
          => /\ swapFile' = Absent
             /\ clast'.failed # "none"
                  => (~clast'.ret /\ realFile' = realFile)
             /\ clast'.failed = "none" => clast'.ret ]_vars

\* C6 witness: a save failed at the commit copy while the document in memory
\* differed from the real settings file.
C6_Witness ==
    /\ clast.op = "save" /\ clast.failed = "commit" /\ ~clast.ret
    /\ changed # {}
    /\ realFile # File(Json(cfgDict))
    /\ swapFile = Absent

\* C7: validate-before-commit.  save_config() reaches the commit step (the
\* copy onto the real settings file) only with a swap file that parses as
\* JSON.
C7_ValidateBeforeCommit ==
    (clast.op = "save" /\ clast.committed) => clast.swapParsed

(***************************************************************************)
(* Claims about the registry, continued.                                   *)
(***************************************************************************)

\* The document a call hands to store(): the legacy document during a
\* migration, otherwise the document in memory after the mutation.
StoredDocument == IF last'.op = "load" THEN Content(json) ELSE cache'

C12_FallbackChain ==
    [][ (phase = "down" /\ phase' = "loaded" /\ ~Exists(json))
          => IF Candidates(enc, bak) # {}
             THEN /\ last'.first = 0 => cache' = Content(enc)
                  /\ last'.first \in GetBackupPaths => cache' = Content(bak[last'.first])
                  /\ last'.first = NUM_BACKUPS + 1 => cache' = <<>>
             ELSE /\ cache' = <<>>
                  /\ enc' = enc /\ json' = json /\ bak' = bak ]_vars

\* C13: startup is never aborted by the registry.  Once load() has returned,
\* the construction completes: self-registration and the persist it triggers
\* do not raise, whatever the outcomes of the encrypted and plaintext writes.
C13_StartupCompletes ==
    [][ phase = "loaded" => (phase' = "up" /\ last'.ret # "raise") ]_vars

\* C14: backup rotation happens only on a successful load from the primary
\* file.  A call that persists (add, remove, update, self-registration) leaves
\* every backup generation as it was, and a load that adopts a backup, migrates
\* the legacy file or is a first run leaves every backup generation and the
\* primary file as they were.
C14_RotationOnlyOnPrimaryLoad ==
    [][ /\ last'.op \in {"add", "remove", "update", "init"} => bak' = bak
        /\ (phase = "down" /\ phase' = "loaded"
              /\ last'.source \in {"backup", "legacy", "firstrun"})
             => (bak' = bak /\ enc' = enc) ]_vars

(***************************************************************************)
(* Claims about the backup manager, continued.                             *)
(***************************************************************************)

\* C15: create_backup never modifies or deletes the file at cache_location,
\* whatever the outcome of the call; and on a cache_location that does not
\* exist it returns no value and creates, changes or deletes no backup file
\* and no metadata file.
C15_OriginalUntouched ==
    [][ /\ cacheFiles' = cacheFiles
        /\ blast'.fault = "missing"
             => /\ blast'.ret = NoPath
                /\ backupFiles' = backupFiles
                /\ metadata' = metadata ]_vars

\* C15 witness: a call on a missing cache file, made when backups of an
\* existing one are on disk and recorded.
C15_Witness ==
    /\ blast.fault = "missing" /\ blast.ret = NoPath
    /\ made # <<>>
    /\ backupFiles # NoDir /\ metadata # NoDir
    /\ \E l \in Locations : Exists(cacheFiles[l])

\* C16: a metadata or pruning error does not undo or fail an accepted backup.
\* Whenever the copy and the decrypt verification succeed, the backup file is
\* on disk after the call and create_backup returns its path, also when
\* reading or writing the metadata file or pruning fails.
C16_AcceptedBackupKept ==
    [][ blast'.fault \notin {"missing", "copy", "verify"}
          => /\ blast'.ret = blast'.path
             /\ blast'.path \in DOMAIN backupFiles' ]_vars

\* The records a query has to report: those of the application's metadata
\* file, none when the file is missing or cannot be read.
RecordsOnDisk ==
    IF MetadataFile(qlast.app) \in DOMAIN metadata /\ qlast.readOk
    THEN metadata[MetadataFile(qlast.app)] ELSE <<>>

\* C17: backup queries.  get_last_backup_time returns the largest timestamp
\* among the records of the application's metadata file, in whatever order
\* they were appended, and nothing when the file is missing, unreadable or
\* without records; list_backups returns the full record list, or the empty
\* list.
C17_LastBackupIsMostRecent ==
    qlast.op = "query"
      => /\ qlast.list = RecordsOnDisk
         /\ qlast.time = IF RecordsOnDisk = <<>> THEN {}
                         ELSE {CHOOSE t \in {r.timestamp : r \in Range(RecordsOnDisk)} :
                                 \A r \in Range(RecordsOnDisk) : r.timestamp <= t}

(***************************************************************************)
(* Claims about the main window.                                           *)
(***************************************************************************)

\* The list without the entries at the (0-based) positions in rows, the others
\* in their order.
RECURSIVE Without(_, _)
Without(apps, rows) ==
    IF apps = <<>> THEN <<>>
    ELSE LET front == Without(SubSeq(apps, 1, Len(apps) - 1), rows)
         IN IF (Len(apps) - 1) \in rows THEN front ELSE Append(front, apps[Len(apps)])

C19_BackupButtonFollowsSelection ==
    backup_btn <=> (selected # {})

(***************************************************************************)
(* Claims about the settings loader, continued.                            *)
(***************************************************************************)

\* The first file of a listing that is not named config_example.json, as a
\* set: empty when there is none.
FirstOther(listing) ==
    LET others == {i \in DOMAIN listing : listing[i] # "config_example.json"}
    IN IF others = {} THEN {}
       ELSE {listing[CHOOSE i \in others : \A k \in others : i <= k]}

\* C20: settings file selection.  A construction without an explicit path
\* chooses config.json when the listing of the configs directory holds it,
\* otherwise the first listed file not named config_example.json, otherwise
\* config_example.json.
C20_ConfigFileSelection ==
    (clast.op = "construct" /\ given = None)
      => config_path = IF "config.json" \in Range(configs) THEN "config.json"
                       ELSE IF FirstOther(configs) # {}
                       THEN CHOOSE f \in FirstOther(configs) : TRUE
                       ELSE "config_example.json"

\* C21: set_config_value(key, value) adds key to the changed set and updates
\* the attribute and the backing document only if key is an existing setting
\* whose current value differs from value, and otherwise changes nothing;
\* clear_changes and a successful save_config empty the changed set; a failed
\* save_config leaves the changed set and the backing document as they were.
C21_ChangeTracking ==
    [][ /\ clast'.op = "set" =>
             IF clast'.key \in Settings /\ cfgAttrs[clast'.key] # clast'.value
             THEN /\ changed' = changed \cup {clast'.key}
                  /\ cfgAttrs' = [cfgAttrs EXCEPT ![clast'.key] = clast'.value]
                  /\ clast'.key \in DOMAIN cfgDict'
                  /\ cfgDict'[clast'.key] = clast'.value
                  /\ \A k \in DOMAIN cfgDict' \ {clast'.key} :
                        k \in DOMAIN cfgDict /\ cfgDict'[k] = cfgDict[k]
             ELSE UNCHANGED <<cfgAttrs, cfgDict, changed>>
        /\ clast'.op = "clear" => changed' = {}
        /\ clast'.op = "save" =>
             IF clast'.ret THEN changed' = {} ELSE UNCHANGED <<changed, cfgDict>> ]_vars

\* C22: from_string maps every casing of "unknown", "none", "standard" and
\* "oqs" to the member of that value, maps None and every other text to
\* UNKNOWN, always returns a member, and from_string(str(s)) = s for each of
\* the four members.
C22_ParsingTotal ==
    slast.op = "from_string" =>
        /\ slast.ret \in DOMAIN EncryptionStrategy
        /\ \A s \in DOMAIN EncryptionStrategy :
             /\ slast.value \in Casings(Str(s)) => slast.ret = s
             /\ slast.value = Str(s) => slast.ret = s
        /\ (\/ slast.value = NoValue
            \/ \A s \in DOMAIN EncryptionStrategy : slast.value \notin Casings(Str(s)))
               => slast.ret = "UNKNOWN"

C22_Witness ==
    /\ slast.op = "from_string"
    /\ slast.value = <<"S", "t", "a", "n", "d", "a", "r", "d">>
    /\ slast.ret = "STANDARD"

\* The digits of a byte count below 1024^3.
Bytes(n) ==
    [j \in Positions |->
       IF j = 0 THEN n % 1024
       ELSE IF j = 1 THEN (n \div 1024) % 1024
       ELSE IF j = 2 THEN n \div 1048576
       ELSE 0]

\* C23: for an existing cache file of n >= 0 bytes get_cache_size reports n in
\* the first unit of B, KB, MB, GB for which n divided by the unit's power of
\* 1024 is below 1024, and in TB otherwise; 1023 bytes report "1023.00 B",
\* 1024 bytes "1.00 KB" and 1,048,576 bytes "1.00 MB"; a missing file reports
\* "Not found".  Up to MB the number reported is within half a hundredth of n
\* divided by the unit's power of 1024.
C23_UnitSelection ==
    zlast.op = "get_cache_size" =>
        /\ zlast.answer = "missing" => zlast.ret = "Not found"
        /\ zlast.answer = "file" =>
             LET d == zlast.size
                 fits(k) == \A j \in Positions : j > k => d[j] = 0
                 k == IF \E j \in 0..3 : fits(j)
                      THEN CHOOSE j \in 0..3 : fits(j) /\ \A i \in 0..(j - 1) : ~fits(i)
                      ELSE 4
                 p == 1024 ^ k
                 low == IF k = 0 THEN 0 ELSE IF k = 1 THEN d[0] ELSE d[0] + 1024 * d[1]
                 h == 100 * zlast.ret.whole + zlast.ret.cents
             IN /\ zlast.ret.unit = <<"B", "KB", "MB", "GB", "TB">>[k + 1]
                /\ k <= 2 => 2 * ((h - 100 * d[k]) * p - 100 * low) \in (0 - p)..p
                /\ d = Bytes(1023) => zlast.ret = [whole |-> 1023, cents |-> 0, unit |-> "B"]
                /\ d = Bytes(1024) => zlast.ret = [whole |-> 1, cents |-> 0, unit |-> "KB"]
                /\ d = Bytes(1048576) => zlast.ret = [whole |-> 1, cents |-> 0, unit |-> "MB"]

C23_Witness ==
    /\ zlast.op = "get_cache_size"
    /\ zlast.answer = "file"
    /\ zlast.size = Bytes(1024)
    /\ zlast.ret = [whole |-> 1, cents |-> 0, unit |-> "KB"]

\* C24: after every add_application, in-range remove_application, in-range
\* update_application or self-registration whose encrypted write succeeds,
\* decrypting the primary registry file yields the document in memory, and so
\* it does in every state between operations in which the most recent persist
\* encrypted successfully.  States of a run whose load() could not decrypt
\* the primary file are left out.
C24_DurableTracksMemory ==
    /\ (last.op \in {"add", "remove", "update", "init"} /\ last.persist = "encrypted")
          => (Exists(enc) /\ Content(enc) = cache)
    /\ (phase = "up" /\ last.recent = "encrypted" /\ ~(last.op = "init" /\ last.first > 0))
          => (Exists(enc) /\ Content(enc) = cache)

\* The entry the claim expects for an argument tuple.
GivenEntry(a) ==
    [name |-> a[1], service_name |-> a[2], app_identifier |-> a[3], cache_location |-> a[4],
     encryption_strategy |-> IF a[5] = None \/ a[5] = "" THEN "unknown" ELSE a[5]]

\* C25: add_application appends exactly one entry at the end and leaves the
\* existing entries and their order as they were; an in-range
\* update_application(i, ...) replaces only the entry at position i and keeps
\* the length; an in-range remove_application(i) deletes only the entry at
\* position i; add and update store encryption_strategy as given, or "unknown"
\* when it is absent or empty.
C25_EffectAndFrame ==
    [][ ops' = ops + 1 =>
          /\ last'.op = "add" =>
               /\ Len(cache') = Len(cache) + 1
               /\ \A j \in 1..Len(cache) : cache'[j] = cache[j]
               /\ cache'[Len(cache) + 1] = GivenEntry(last'.args)
          /\ (last'.op = "update" /\ 0 <= last'.index /\ last'.index < Len(cache)) =>
               /\ Len(cache') = Len(cache)
               /\ \A j \in 1..Len(cache) : j # last'.index + 1 => cache'[j] = cache[j]
               /\ cache'[last'.index + 1] = GivenEntry(last'.args)
          /\ (last'.op = "remove" /\ 0 <= last'.index /\ last'.index < Len(cache)) =>
               /\ Len(cache') = Len(cache) - 1
               /\ \A j \in 1..Len(cache') :
                    cache'[j] = IF j <= last'.index THEN cache[j] ELSE cache[j + 1] ]_vars

\* C25 witness: an entry given with an empty strategy replaced the first of
\* two entries.
C25_Witness ==
    /\ last.op = "update" /\ last.inRange /\ last.index = 0
    /\ last.args[5] = ""
    /\ Len(cache) = 2
    /\ cache[1].encryption_strategy = "unknown"

\* Every record of every metadata file names a backup file that exists.
NoDangling(meta, files) ==
    \A f \in DOMAIN meta : \A i \in DOMAIN meta[f] : meta[f][i].path \in DOMAIN files

\* C26: after any sequence of create_backup calls, same-second calls and calls
\* that fail verification included, every record in every metadata file names
\* a backup file that exists on disk, and a path that create_backup returns
\* exists on disk at return.  Stated as the step the claim needs: from a
\* directory without dangling records, left by calls that met no fault, a call
\* that meets no fault or only a failed verification leaves no dangling record
\* and returns no path of a missing file.
C26_MetadataNeverDangles ==
    [][ ( /\ allOk
          /\ NoDangling(metadata, backupFiles)
          /\ blast'.fault \in {"none", "verify"} )
          => /\ NoDangling(metadata', backupFiles')
             /\ blast'.ret # NoPath => blast'.ret \in DOMAIN backupFiles' ]_vars

\* C27: in every reachable state, if the most recent persist succeeded in
\* encrypting to the primary file, no plaintext registry file exists at the
\* legacy location.
C27_NoStalePlaintext == last.recent = "encrypted" => ~Exists(json)

\* C28: when no legacy file exists and the primary registry file decrypts and
\* parses, the document held after load() is the primary's content, whether
\* the backup rotation that follows succeeds or fails part-way.
C28_DecryptablePrimaryWins ==
    [][ ( /\ phase = "down" /\ phase' = "loaded"
          /\ ~Exists(json) /\ Exists(enc)
          /\ last'.first = 0 )
          => cache' = Content(enc) ]_vars

MadeFor(history, app_name) == {history[i] : i \in {j \in DOMAIN history : history[j].app = app_name}}

\* C30: for any two applications with different display names, create_backup
\* for one never adds records to, removes records from, or deletes backup
\* files belonging to the other, and list_backups and get_last_backup_time for
\* one never report the other's backups.  Stated for calls that succeed in a
\* behaviour without faults.
C30_PerApplicationIsolation ==
    [][ (allOk' /\ Len(made') = Len(made) + 1) =>
          LET x == made'[Len(made')].app IN
          \A y \in AppNames \ {x} :
            /\ ListBackups(metadata', y, TRUE) = ListBackups(metadata, y, TRUE)
            /\ \A m \in MadeFor(made, y) :
                 m.path \in DOMAIN backupFiles => m.path \in DOMAIN backupFiles'
            /\ \A rec \in Range(ListBackups(metadata', y, TRUE)) :
                 \E m \in MadeFor(made', y) :
                    m.path = rec.path /\ m.timestamp = rec.timestamp
            /\ GetLastBackupTime(metadata', y, TRUE)
                 \subseteq {m.timestamp : m \in MadeFor(made', y)} ]_vars

====
